---- MODULE Spec2Model ----
(***************************************************************************)
(* A model of include/simple_logger.h: the build-time threshold, the       *)
(* process-wide lazily opened log file, and the scoped SimpleLogger        *)
(* statement objects that write a preamble, tokens and a line terminator.  *)
(* One single-threaded client issues any sequence of the header's          *)
(* operations.                                                             *)
(***************************************************************************)
EXTENDS Integers, Sequences, FiniteSets, TLC

(* ------------------------------ bounds -------------------------------- *)

\* operations the client performs in one run
MaxOps == 6
\* statement objects constructed in one run (copies included): a statement
\* takes three operations, its construction, a token and its destruction
MaxObjs == MaxOps \div 3

(* ------------------------------ LogLevel ------------------------------ *)

Debug == 0
Info == 1
Warning == 2
Error == 3

LogLevel == {Debug, Info, Warning, Error}

\* a mapping that labels every value above Warning "Error"
logLevelToStringClamped(level) ==
    CASE level = Debug -> "Debug"
      [] level = Info -> "Info"
      [] level = Warning -> "Warning"
      [] OTHER -> "Error"

logLevelToString(level) ==
    CASE level = Debug -> "Debug"
      [] level = Info -> "Info"
      [] level = Warning -> "Warning"
      [] level = Error -> "Error"
      [] OTHER -> "Unknown"

(* ------------------------------ inputs -------------------------------- *)

\* file names the client may store in logFileName: one in the working
\* directory, and one in a directory that does not exist, which no open creates
CustomName == "custom.log"
NoDirName == "/nodir/app.log"

\* tokens a client streams into a statement
Tokens == {"disk full"}

\* call sites: std::source_location of the macro expansion
Locations ==
    { [file |-> <<"/", "a", "/", "m", ".", "c">>, line |-> 42, func |-> "main"] }

\* clock readings, in milliseconds since the clock's epoch
Times == {45296789}

\* streams a statement can be bound to
FileStream == "logFile"
UserStream == "user"
NullStream == "null"

\* what the log file of an earlier run holds, and the mark of a file that is
\* not there
Stale == <<"stale">>
Absent == <<"absent">>
EndL == "\n"

VARIABLES
    NDEBUG,       \* the build flag that selects logLevel
    logFileName,  \* SimpleLoggerConfig::logFileName
    logFile,      \* SimpleLoggerConfig::logFile: [is_open, path]
    disk,         \* path -> content of the file (a sequence of pieces)
    user,         \* content of the caller-supplied stream
    objs,         \* every SimpleLogger object constructed so far, with the
                  \* writes issued on its behalf
    calls,        \* getLogFile calls so far: [n, attempts, opened]
    ops,          \* operations performed so far
    fill,         \* the fill character of logFile and of the caller's stream
    pure,         \* the argument and the result of a function applied on its own
    thr           \* the position of each of two threads that log concurrently

vars == <<NDEBUG, logFileName, logFile, disk, user, objs, calls, ops, fill, pure, thr>>

(* -------------------------- SimpleLoggerConfig ------------------------ *)

logLevel == IF NDEBUG THEN Info ELSE Debug

DefaultName(ndebug) == logLevelToString(IF ndebug THEN Info ELSE Debug) \o ".log"

FileNames(ndebug) == {DefaultName(ndebug), CustomName, NoDirName}

\* whether the file system lets the process open the path for writing
CanOpen(name) == name # NoDirName

NoPath == "none"

\* an open that falls back to another file when the named one cannot be opened
ofstreamFallback(name) ==
    IF CanOpen(name)
    THEN [is_open |-> TRUE, path |-> name]
    ELSE [is_open |-> TRUE, path |-> CustomName]

\* std::ofstream(name): opens name for writing, truncating it; a failed open
\* leaves a stream that is not open
ofstream(name) ==
    IF CanOpen(name)
    THEN [is_open |-> TRUE, path |-> name]
    ELSE [is_open |-> FALSE, path |-> NoPath]

\* a test that also opens again when logFileName no longer names the open file
NeedsOpenOrRenamed == ~logFile.is_open \/ logFile.path # logFileName

\* the test of getLogFile that decides whether the file is opened
NeedsOpen == ~logFile.is_open

\* logFile after a call of getLogFile
getLogFile == IF NeedsOpen THEN ofstream(logFileName) ELSE logFile

\* a getLogFile that opens, and so truncates, on every call
getLogFileDiskReopen ==
    IF CanOpen(logFileName)
    THEN [disk EXCEPT ![logFileName] = <<>>]
    ELSE disk

\* the file system after a call of getLogFile
getLogFileDisk ==
    IF NeedsOpen /\ CanOpen(logFileName)
    THEN [disk EXCEPT ![logFileName] = <<>>]
    ELSE disk

\* the count of calls, of opens tried and of opens that succeeded, after a
\* call of getLogFile
getLogFileCalls ==
    [n |-> calls.n + 1,
     attempts |-> calls.attempts + (IF NeedsOpen THEN 1 ELSE 0),
     opened |-> calls.opened + (IF NeedsOpen /\ CanOpen(logFileName) THEN 1 ELSE 0)]

\* the fill characters after a call of getLogFile: the move assignment hands
\* logFile the formatting state of the stream just constructed
getLogFileFill ==
    IF NeedsOpen THEN [fill EXCEPT ![FileStream] = " "] ELSE fill

(* ----------------------------- formatting ----------------------------- *)

RECURSIVE Join(_)
Join(chars) == IF chars = <<>> THEN "" ELSE Head(chars) \o Join(Tail(chars))

RECURSIVE Flatten(_)
Flatten(ss) == IF ss = <<>> THEN <<>> ELSE Head(ss) \o Flatten(Tail(ss))

\* operator<< of an integer under setfill('0') and setw(w)
RECURSIVE Pad(_, _)
Pad(s, w) == IF Len(s) >= w THEN s ELSE Pad("0" \o s, w)

timezoneAdjustment == 0

\* an hour field reduced again after the offset is added
hFieldWrapped(now, tz) == (((now \div 3600000) % 24) + tz) % 24

\* a sub-second field that keeps all three digits of the millisecond
msFieldThousand(now) == now % 1000

\* the four numbers print_time computes from `now`, the milliseconds since
\* the clock's epoch, in a build whose timezoneAdjustment is tz
hField(now, tz) == ((now \div 3600000) % 24) + tz
minField(now) == (now \div 60000) % 60
sField(now) == (now \div 1000) % 60
msField(now) == now % 100

\* what print_time streams in a build whose timezoneAdjustment is tz
print_timeAt(now, tz) ==
    <<Pad(ToString(hField(now, tz)), 2), ":", Pad(ToString(minField(now)), 2), ":",
      Pad(ToString(sField(now)), 2), ".", Pad(ToString(msField(now)), 3)>>

print_time(now) == print_timeAt(now, timezoneAdjustment)

\* a search that stops at the first '/'
strchr(path) ==
    LET at == {i \in 1..Len(path) : path[i] = "/"}
    IN IF at = {} THEN 0 ELSE CHOOSE i \in at : \A j \in at : i <= j

\* std::strrchr(file_path, '/'): the index of the last '/', 0 when there is none
strrchr(path) ==
    LET at == {i \in 1..Len(path) : path[i] = "/"}
    IN IF at = {} THEN 0 ELSE CHOOSE i \in at : \A j \in at : j <= i

print_file_name(path) ==
    LET slash_position == strrchr(path)
    IN IF slash_position # 0
       THEN <<Join(SubSeq(path, slash_position + 1, Len(path)))>>
       ELSE <<Join(path)>>

(* ----------------------------- SimpleLogger --------------------------- *)

\* a comparison that leaves out the threshold's own level
is_activeStrict(Level) == Level > logLevel

\* a comparison against the debug build's threshold in every build
is_activeDebugBuild(Level) == Level >= Debug

is_active(Level) == Level >= logLevel

\* a constructor that binds the stream it is given whatever the level
m_streamUnfiltered(Level, stream) == stream

\* a constructor that binds the shared file whatever stream it is given
m_streamDefaultSink(Level, stream) == IF is_active(Level) THEN FileStream ELSE NullStream

\* the stream the constructor binds m_stream to
m_stream(Level, stream) == IF is_active(Level) THEN stream ELSE NullStream

\* a constructor that streams the label in front of the time
PreambleLabelFirst(Level, loc, now) ==
    IF is_active(Level)
    THEN <<"[", logLevelToString(Level), "][">> \o print_time(now) \o <<"][">>
         \o print_file_name(loc.file)
         \o <<":", ToString(loc.line), "]", "[", loc.func, "] ">>
    ELSE <<>>

\* what the constructor streams
Preamble(Level, loc, now) ==
    IF is_active(Level)
    THEN <<"[">> \o print_time(now) \o <<"][", logLevelToString(Level), "][">>
         \o print_file_name(loc.file)
         \o <<":", ToString(loc.line), "]", "[", loc.func, "] ">>
    ELSE <<>>

\* the fill characters f after the constructor has run on `stream`:
\* print_time streams std::setfill('0') and nothing sets the fill back
PreambleFill(f, Level, stream) ==
    IF is_active(Level) THEN [f EXCEPT ![stream] = "0"] ELSE f

\* a destructor that streams nothing
TerminatorNone(Level) == <<>>

\* what the destructor streams
Terminator(Level) == IF is_active(Level) THEN <<EndL>> ELSE <<>>

\* the file system after `data` is streamed into `stream`, the shared file
\* being in state lf: a stream that is not open discards what it is given
WriteDisk(lf, dk, stream, data) ==
    IF stream = FileStream /\ lf.is_open
    THEN [dk EXCEPT ![lf.path] = @ \o data]
    ELSE dk

WriteUser(stream, data) == IF stream = UserStream THEN user \o data ELSE user

\* the writes issued so far, after `data` of kind k is streamed into `stream`
Logged(out, k, stream, data) ==
    IF data = <<>> THEN out
    ELSE Append(out, [kind |-> k, stream |-> stream, data |-> data])

\* what operator<< streams for one token
Streamed(Level, token) == IF is_active(Level) THEN <<token>> ELSE <<>>

\* the stream get_stream() returns for object i
get_stream(i) == objs[i].m_stream

\* the object the implicit copy constructor makes of object i
CopyOf(i) == [Level |-> objs[i].Level, dest |-> objs[i].dest,
              m_stream |-> objs[i].m_stream, alive |-> TRUE, copyOf |-> i,
              encl |-> {j \in 1..Len(objs) : objs[j].alive}, shifts |-> 0,
              out |-> <<>>]

Alive == {i \in 1..Len(objs) : objs[i].alive}

\* automatic storage: the object constructed last is destroyed first
Innermost == CHOOSE i \in Alive : \A j \in Alive : j <= i

\* one more operation of the run
Step == ops < MaxOps /\ ops' = ops + 1

\* one more statement object of the run
Fresh == Len(objs) < MaxObjs

\* no function is being applied on its own, and no second thread runs
NoCall == [fn |-> "none", done |-> FALSE]
NoThreads == <<>>

(* ------------------------------- actions ------------------------------ *)

InitLogger ==
    /\ NDEBUG \in BOOLEAN
    /\ logFileName = DefaultName(NDEBUG)
    /\ logFile = [is_open |-> FALSE, path |-> NoPath]
    /\ disk = [n \in FileNames(NDEBUG) |->
                  IF n = DefaultName(NDEBUG) THEN Stale ELSE Absent]
    /\ user = <<>>
    /\ objs = <<>>
    /\ calls = [n |-> 0, attempts |-> 0, opened |-> 0]
    /\ ops = 0
    /\ fill = [st \in {FileStream, UserStream} |-> " "]

Init ==
    /\ InitLogger
    /\ pure = NoCall
    /\ thr = NoThreads

\* the client assigns SimpleLoggerConfig::logFileName
SetLogFileName ==
    \E n \in FileNames(NDEBUG) :
        /\ Step
        /\ n # logFileName
        /\ logFileName' = n
        /\ UNCHANGED <<fill, pure, thr, NDEBUG, logFile, disk, user, objs, calls>>

\* the client calls SimpleLoggerConfig::getLogFile() itself
GetLogFile ==
    /\ Step
    /\ logFile' = getLogFile
    /\ disk' = getLogFileDisk
    /\ calls' = getLogFileCalls
    /\ fill' = getLogFileFill
    /\ UNCHANGED <<pure, thr, NDEBUG, logFileName, user, objs>>

\* LOG_<LEVEL> / GET_LOG_STREAM_<LEVEL>(name): the macro evaluates getLogFile()
\* as the constructor's argument, then the constructor runs
LogDefault ==
    \E Level \in LogLevel, loc \in Locations, now \in Times :
        /\ Step /\ Fresh
        /\ logFile' = getLogFile
        /\ calls' = getLogFileCalls
        /\ fill' = PreambleFill(getLogFileFill, Level, FileStream)
        /\ disk' = WriteDisk(getLogFile, getLogFileDisk,
                             m_stream(Level, FileStream), Preamble(Level, loc, now))
        /\ objs' = Append(objs, [Level |-> Level, dest |-> FileStream,
                                 m_stream |-> m_stream(Level, FileStream),
                                 alive |-> TRUE, copyOf |-> 0, encl |-> Alive,
                                 shifts |-> 0,
                                 out |-> Logged(<<>>, "pre", m_stream(Level, FileStream),
                                                Preamble(Level, loc, now))])
        /\ UNCHANGED <<pure, thr, NDEBUG, logFileName, user>>

\* SIMPLE_LOGGER_LOG(level, stream) / GET_LOG_STREAM(level, stream, name) on a
\* stream of the caller's
LogUser ==
    \E Level \in LogLevel, loc \in Locations, now \in Times :
        /\ Step /\ Fresh
        /\ user' = WriteUser(m_stream(Level, UserStream), Preamble(Level, loc, now))
        /\ disk' = WriteDisk(logFile, disk, m_stream(Level, UserStream),
                             Preamble(Level, loc, now))
        /\ fill' = PreambleFill(fill, Level, UserStream)
        /\ objs' = Append(objs, [Level |-> Level, dest |-> UserStream,
                                 m_stream |-> m_stream(Level, UserStream),
                                 alive |-> TRUE, copyOf |-> 0, encl |-> Alive,
                                 shifts |-> 0,
                                 out |-> Logged(<<>>, "pre", m_stream(Level, UserStream),
                                                Preamble(Level, loc, now))])
        /\ UNCHANGED <<pure, thr, NDEBUG, logFileName, logFile, calls>>

\* statement << token, for a statement in scope
ShiftLeft ==
    \E i \in Alive, token \in Tokens :
        /\ Step
        /\ disk' = WriteDisk(logFile, disk, objs[i].m_stream, Streamed(objs[i].Level, token))
        /\ user' = WriteUser(objs[i].m_stream, Streamed(objs[i].Level, token))
        /\ objs' = [objs EXCEPT ![i].shifts = @ + 1, ![i].out =
                        Logged(@, "tok", objs[i].m_stream, Streamed(objs[i].Level, token))]
        /\ UNCHANGED <<fill, pure, thr, NDEBUG, logFileName, logFile, calls>>

\* statement.get_stream() << token: the write goes to the bound stream itself
GetStreamWrite ==
    \E i \in Alive, token \in Tokens :
        /\ Step
        /\ disk' = WriteDisk(logFile, disk, get_stream(i), <<token>>)
        /\ user' = WriteUser(get_stream(i), <<token>>)
        /\ objs' = [objs EXCEPT ![i].out = Logged(@, "raw", get_stream(i), <<token>>)]
        /\ UNCHANGED <<fill, pure, thr, NDEBUG, logFileName, logFile, calls>>

\* a statement is copy-constructed from one in scope (the class declares no
\* copy constructor, so the implicit one binds the same stream and runs no body)
CopyConstruct ==
    \E i \in Alive :
        /\ Step /\ Fresh
        /\ objs' = Append(objs, CopyOf(i))
        /\ UNCHANGED <<fill, pure, thr, NDEBUG, logFileName, logFile, disk, user, calls>>

\* the statement constructed last leaves its scope: ~SimpleLogger
Destroy ==
    /\ Step
    /\ Alive # {}
    /\ LET i == Innermost
       IN /\ objs' = [objs EXCEPT ![i].alive = FALSE,
                                   ![i].out = Logged(@, "endl", objs[i].m_stream,
                                                     Terminator(objs[i].Level))]
          /\ disk' = WriteDisk(logFile, disk, objs[i].m_stream, Terminator(objs[i].Level))
          /\ user' = WriteUser(objs[i].m_stream, Terminator(objs[i].Level))
    /\ UNCHANGED <<fill, pure, thr, NDEBUG, logFileName, logFile, calls>>

Next ==
    \/ SetLogFileName
    \/ GetLogFile
    \/ LogDefault
    \/ LogUser
    \/ ShiftLeft
    \/ GetStreamWrite
    \/ CopyConstruct
    \/ Destroy

Spec == Init /\ [][Next]_vars

(* ------------------- the functions applied on their own --------------- *)

\* the longest path enumerated character by character
MaxPath == 3

PathChars == {"/", "a", ".", "c"}

RECURSIVE PathsOfLen(_)
PathsOfLen(n) ==
    IF n = 0 THEN {<<>>}
    ELSE {<<ch>> \o q : ch \in PathChars, q \in PathsOfLen(n - 1)}

AbsolutePath == <<"/", "a", "/", "b", "/", "c", ".", "c", "p", "p">>
BarePath == <<"c", ".", "c", "p", "p">>

Paths == UNION {PathsOfLen(n) : n \in 0..MaxPath} \cup {AbsolutePath, BarePath}

\* every value of the enumeration's underlying type
UInt8 == 0..255

\* times of day at the edges of each field, on the epoch's day and the next
PureTimes ==
    {d * 86400000 + hh * 3600000 + mm * 60000 + ss * 1000 + ms :
        d \in {0, 1}, hh \in {0, 12, 23}, mm \in {0, 34, 59},
        ss \in {0, 56, 59}, ms \in {0, 89, 100, 789, 999}}

\* builds with the offset the source has, and with one either side of it
Offsets == {0 - 5, 0, 5}

PureCalls ==
    {[fn |-> "print_file_name", arg |-> path, done |-> FALSE, ret |-> <<>>] :
        path \in Paths}
    \cup {[fn |-> "logLevelToString", arg |-> level, done |-> FALSE, ret |-> ""] :
        level \in UInt8}
    \cup {[fn |-> "print_time", arg |-> [now |-> now, tz |-> tz], done |-> FALSE,
           ret |-> <<>>] : now \in PureTimes, tz \in Offsets}

InitPure ==
    /\ InitLogger
    /\ pure \in PureCalls
    /\ thr = NoThreads

PrintFileName ==
    /\ pure.fn = "print_file_name" /\ ~pure.done
    /\ pure' = [pure EXCEPT !.done = TRUE, !.ret = print_file_name(pure.arg)]
    /\ UNCHANGED <<NDEBUG, logFileName, logFile, disk, user, objs, calls, ops, fill, thr>>

LogLevelToString ==
    /\ pure.fn = "logLevelToString" /\ ~pure.done
    /\ pure' = [pure EXCEPT !.done = TRUE, !.ret = logLevelToString(pure.arg)]
    /\ UNCHANGED <<NDEBUG, logFileName, logFile, disk, user, objs, calls, ops, fill, thr>>

PrintTime ==
    /\ pure.fn = "print_time" /\ ~pure.done
    /\ pure' = [pure EXCEPT !.done = TRUE,
                            !.ret = [h |-> hField(pure.arg.now, pure.arg.tz),
                                     min |-> minField(pure.arg.now),
                                     s |-> sField(pure.arg.now),
                                     ms |-> msField(pure.arg.now),
                                     text |-> print_timeAt(pure.arg.now, pure.arg.tz)]]
    /\ UNCHANGED <<NDEBUG, logFileName, logFile, disk, user, objs, calls, ops, fill, thr>>

NextPure ==
    \/ PrintFileName
    \/ LogLevelToString
    \/ PrintTime

SpecPure == InitPure /\ [][NextPure]_vars

(* ------------------------- derived quantities ------------------------- *)

Objs == 1..Len(objs)

\* the positions of the writes of kind k issued for object i
KindAt(i, k) == {n \in 1..Len(objs[i].out) : objs[i].out[n].kind = k}

\* everything streamed on behalf of object i, in order
Line(i) == Flatten([n \in 1..Len(objs[i].out) |-> objs[i].out[n].data])

\* the pieces issued on `stream` by all objects
RECURSIVE IssuedUpTo(_, _)
IssuedUpTo(i, stream) ==
    IF i = 0 THEN 0
    ELSE IssuedUpTo(i - 1, stream)
         + Len(Flatten([n \in 1..Len(objs[i].out) |->
                          IF objs[i].out[n].stream = stream
                          THEN objs[i].out[n].data ELSE <<>>]))
Issued(stream) == IssuedUpTo(Len(objs), stream)

\* how many pieces of `content` are the piece p
Count(content, p) == Cardinality({n \in 1..Len(content) : content[n] = p})

\* no file has been created, truncated or written
DiskUntouched == \A n \in DOMAIN disk : disk[n] \in {Absent, Stale}

Done == Alive = {}

(* --------------- two threads and the first open of logFile ------------ *)

Threads == {1, 2}

\* what each thread appends to its statement
ThreadToken(t) == <<"one", "two">>[t]

\* the levels of the two threads' LOG_<LEVEL> lines
ThreadLevels == {Debug, Error}

\* `content` holds the pieces `sub` next to one another, in order
Holds(content, sub) ==
    \E k \in 0..(Len(content) - Len(sub)) :
        \A n \in 1..Len(sub) : content[k + n] = sub[n]

\* a piece of a file that was never written: a write behind the end of a
\* file that another handle has truncated leaves such pieces in front of it
Hole == "\\0"

\* the file `content` after `data` is written at offset pos
WriteAt(content, pos, data) ==
    LET end == IF Len(content) > pos + Len(data) THEN Len(content) ELSE pos + Len(data)
    IN [k \in 1..end |->
           IF k > pos /\ k <= pos + Len(data) THEN data[k - pos]
           ELSE IF k <= Len(content) THEN content[k] ELSE Hole]

\* the file system after a thread streams `data` into `stream`: logFile writes
\* at the offset of the handle it holds
ThreadWriteDisk(stream, data) ==
    IF stream = FileStream /\ logFile.is_open /\ data # <<>>
    THEN [disk EXCEPT ![logFile.path] = WriteAt(@, thr.pos, data)]
    ELSE disk

ThreadWritePos(stream, data) ==
    IF stream = FileStream /\ logFile.is_open THEN thr.pos + Len(data) ELSE thr.pos

\* a test made again, under a lock, just before the file is opened
OpensAfterTestRechecked(t) == ~logFile.is_open

\* line 42 is reached by a thread whose test on line 41 found the file not
\* open; nothing makes the thread look again
OpensAfterTest(t) == TRUE

\* everything thread t's statement streams
ThreadLine(t) ==
    Preamble(thr.Level[t], CHOOSE loc \in Locations : TRUE, CHOOSE now \in Times : TRUE)
    \o Streamed(thr.Level[t], ThreadToken(t)) \o Terminator(thr.Level[t])

InitRace ==
    /\ InitLogger
    /\ pure = NoCall
    /\ thr \in {[pc |-> [t \in Threads |-> "test"],
                  Level |-> [t \in Threads |-> IF t = 1 THEN l1 ELSE l2],
                  tmp |-> [t \in Threads |-> [is_open |-> FALSE, path |-> NoPath]],
                  pos |-> 0,
                  kept |-> [t \in Threads |-> FALSE]] :
                     l1 \in ThreadLevels, l2 \in ThreadLevels}

\* line 41: the thread reads logFile.is_open()
ThreadTest ==
    \E t \in Threads :
        /\ thr.pc[t] = "test"
        /\ thr' = [thr EXCEPT !.pc[t] = IF logFile.is_open THEN "ctor" ELSE "open"]
        /\ calls' = [calls EXCEPT !.n = @ + 1]
        /\ UNCHANGED <<NDEBUG, logFileName, logFile, disk, user, objs, ops, fill, pure>>

\* line 42, right-hand side: std::ofstream(logFileName) creates or truncates the file
ThreadOpen ==
    \E t \in Threads :
        /\ thr.pc[t] = "open"
        /\ IF OpensAfterTest(t)
           THEN /\ thr' = [thr EXCEPT !.pc[t] = "assign", !.tmp[t] = ofstream(logFileName)]
                /\ disk' = IF CanOpen(logFileName)
                           THEN [disk EXCEPT ![logFileName] = <<>>] ELSE disk
                /\ calls' = [calls EXCEPT !.attempts = @ + 1,
                                !.opened = @ + (IF CanOpen(logFileName) THEN 1 ELSE 0)]
           ELSE /\ thr' = [thr EXCEPT !.pc[t] = "ctor"]
                /\ UNCHANGED <<disk, calls>>
        /\ UNCHANGED <<NDEBUG, logFileName, logFile, user, objs, ops, fill, pure>>

\* line 42, the assignment: logFile takes the new handle, at offset 0, and
\* the new stream's formatting state; the handle it held is closed
ThreadAssign ==
    \E t \in Threads :
        /\ thr.pc[t] = "assign"
        /\ logFile' = thr.tmp[t]
        /\ fill' = [fill EXCEPT ![FileStream] = " "]
        /\ thr' = [thr EXCEPT !.pc[t] = "ctor", !.pos = 0,
                              !.tmp[t] = [is_open |-> FALSE, path |-> NoPath]]
        /\ UNCHANGED <<NDEBUG, logFileName, disk, user, objs, calls, ops, pure>>

\* the constructor runs on the reference getLogFile returned
ThreadConstruct ==
    \E t \in Threads, loc \in Locations, now \in Times :
        /\ thr.pc[t] = "ctor"
        /\ disk' = ThreadWriteDisk(m_stream(thr.Level[t], FileStream),
                                   Preamble(thr.Level[t], loc, now))
        /\ fill' = PreambleFill(fill, thr.Level[t], FileStream)
        /\ thr' = [thr EXCEPT !.pc[t] = "shift",
                              !.pos = ThreadWritePos(m_stream(thr.Level[t], FileStream),
                                                     Preamble(thr.Level[t], loc, now))]
        /\ UNCHANGED <<NDEBUG, logFileName, logFile, user, objs, calls, ops, pure>>

\* statement << token
ThreadShiftLeft ==
    \E t \in Threads :
        /\ thr.pc[t] = "shift"
        /\ disk' = ThreadWriteDisk(m_stream(thr.Level[t], FileStream),
                                   Streamed(thr.Level[t], ThreadToken(t)))
        /\ thr' = [thr EXCEPT !.pc[t] = "dtor",
                              !.pos = ThreadWritePos(m_stream(thr.Level[t], FileStream),
                                                     Streamed(thr.Level[t], ThreadToken(t)))]
        /\ UNCHANGED <<NDEBUG, logFileName, logFile, user, objs, calls, ops, fill, pure>>

\* ~SimpleLogger at the end of the full expression; kept[t] records whether
\* the file holds the thread's whole line when the statement is over
ThreadDestroy ==
    \E t \in Threads :
        /\ thr.pc[t] = "dtor"
        /\ disk' = ThreadWriteDisk(m_stream(thr.Level[t], FileStream),
                                   Terminator(thr.Level[t]))
        /\ thr' = [thr EXCEPT !.pc[t] = "done",
                              !.pos = ThreadWritePos(m_stream(thr.Level[t], FileStream),
                                                     Terminator(thr.Level[t])),
                              !.kept[t] = /\ logFile.is_open
                                          /\ ThreadLine(t) # <<>>
                                          /\ Holds(disk'[logFile.path], ThreadLine(t))]
        /\ UNCHANGED <<NDEBUG, logFileName, logFile, user, objs, calls, ops, fill, pure>>

NextRace ==
    \/ ThreadTest
    \/ ThreadOpen
    \/ ThreadAssign
    \/ ThreadConstruct
    \/ ThreadShiftLeft
    \/ ThreadDestroy

SpecRace == InitRace /\ [][NextRace]_vars

(* -------------------------------- C1 ---------------------------------- *)

\* every statement so far came from an inactive LOG_<LEVEL> or
\* GET_LOG_STREAM_<LEVEL> call site, and nothing else called getLogFile
OnlyInactiveDefaultCalls ==
    /\ Len(objs) >= 1
    /\ calls.n = Len(objs)
    /\ \A i \in Objs : /\ objs[i].dest = FileStream
                       /\ objs[i].copyOf = 0
                       /\ ~is_active(objs[i].Level)

\* C1: after any sequence of calls made only through inactive default-sink call
\* sites the shared log file has not been opened, created or truncated.
C1_InactiveCallsCreateNoFile ==
    OnlyInactiveDefaultCalls => (~logFile.is_open /\ DiskUntouched)

(* -------------------------------- C2 ---------------------------------- *)

\* C2: over any N >= 1 calls of getLogFile the open is performed exactly once,
\* by the first call, whatever its outcome; no later call opens again.
C2_OpenedExactlyOnce == (calls.n >= 1) => (calls.attempts = 1)

(* -------------------------------- C3 ---------------------------------- *)

\* C3: every statement at or above the threshold issues exactly one line
\* terminator on its destination, as its last write, when it is destroyed and
\* not before, whatever the number of tokens; on the caller's stream, which
\* never fails, the terminators received are exactly those of the destroyed
\* active statements.
C3_OneTerminatorAtDestruction ==
    /\ \A i \in Objs :
          is_active(objs[i].Level) =>
              IF objs[i].alive
              THEN KindAt(i, "endl") = {}
              ELSE /\ KindAt(i, "endl") = {Len(objs[i].out)}
                   /\ objs[i].out[Len(objs[i].out)].stream = objs[i].dest
                   /\ objs[i].out[Len(objs[i].out)].data = <<EndL>>
    /\ Count(user, EndL) =
          Cardinality({i \in Objs : /\ objs[i].dest = UserStream
                                    /\ is_active(objs[i].Level)
                                    /\ ~objs[i].alive})

\* two active statements have been destroyed, one with no token and one with a
\* token, and each left its terminator
C3_Witness ==
    \E i, j \in Objs :
        /\ is_active(objs[i].Level) /\ is_active(objs[j].Level)
        /\ ~objs[i].alive /\ ~objs[j].alive
        /\ objs[i].dest = UserStream
        /\ KindAt(i, "tok") = {} /\ KindAt(i, "raw") = {}
        /\ KindAt(j, "tok") # {}
        /\ KindAt(i, "endl") # {} /\ KindAt(j, "endl") # {}

(* -------------------------------- C4 ---------------------------------- *)

\* C4: a statement below the threshold is bound to the null stream and nothing
\* issued on its behalf reaches the stream given at construction: no preamble,
\* no token of operator<<, no terminator, and get_stream() writes go to the
\* null stream; the caller's stream holds only what active statements
\* issued, and a file that only inactive statements were given holds nothing.
C4_InactiveWritesNothing ==
    /\ \A i \in Objs :
          ~is_active(objs[i].Level) =>
              /\ objs[i].m_stream = NullStream
              /\ \A n \in 1..Len(objs[i].out) :
                    objs[i].out[n].kind = "raw" /\ objs[i].out[n].stream = NullStream
    /\ Len(user) = Issued(UserStream)
    /\ (\A i \in Objs : objs[i].dest = FileStream => ~is_active(objs[i].Level))
          => \A n \in DOMAIN disk : disk[n] \in {Absent, Stale, <<>>}

\* an inactive statement on the caller's stream was appended to, written to
\* through get_stream() and destroyed, and the stream is still empty
C4_Witness ==
    \E i \in Objs :
        /\ ~is_active(objs[i].Level)
        /\ objs[i].dest = UserStream
        /\ objs[i].shifts >= 1
        /\ KindAt(i, "raw") # {}
        /\ ~objs[i].alive
        /\ user = <<>>


(* -------------------------------- C5 ---------------------------------- *)

\* the statements whose writes go to the shared file
FileObjs == {i \in Objs : objs[i].m_stream = FileStream}

\* the lines of the statements bound to the shared file, in construction order
RECURSIVE LinesUpTo(_)
LinesUpTo(i) ==
    IF i = 0 THEN <<>>
    ELSE LinesUpTo(i - 1) \o (IF i \in FileObjs THEN Line(i) ELSE <<>>)
LinesInCallOrder == LinesUpTo(Len(objs))

\* the run's only open was the first call's, and it succeeded
OpenedAtFirstCall == logFile.is_open /\ calls.attempts = 1

NoCopies == \A i \in Objs : objs[i].copyOf = 0

\* no statement bound to the file was constructed while another one was in scope
NoOverlap == \A i \in FileObjs : objs[i].encl \cap FileObjs = {}

\* C5 as stated: once every statement is destroyed the file is the
\* concatenation, in construction order, of the active statements' lines, also
\* when their lifetimes overlapped (no statement was copied, the file opened).
C5_CallOrderAlways ==
    (Done /\ OpenedAtFirstCall /\ NoCopies) =>
        disk[logFile.path] = LinesInCallOrder

\* C5 amended: the same, for runs in which no statement bound to the file is
\* constructed while another one is still in scope.
C5_CallOrderWithoutOverlap ==
    (Done /\ OpenedAtFirstCall /\ NoOverlap) =>
        disk[logFile.path] = LinesInCallOrder

\* two active statements wrote one line each to the file, one after the other
C5_Witness ==
    /\ Done /\ OpenedAtFirstCall /\ NoOverlap
    /\ Cardinality(FileObjs) = 2
    /\ \E i \in FileObjs : KindAt(i, "tok") # {}
    /\ Count(disk[logFile.path], EndL) = 2

(* -------------------------------- C6 ---------------------------------- *)

\* C6: as long as no open of the log file has succeeded, getLogFile hands out
\* a stream that is not open and every write of every statement bound to it is
\* discarded: no file is created or changed, and every operation completes.
C6_FailedOpenDiscards ==
    (calls.opened = 0) => (~logFile.is_open /\ DiskUntouched)

\* the open failed and an active statement on the shared sink has written its
\* preamble, a token and its terminator: nothing is on disk
C6_Witness ==
    /\ calls.attempts >= 1 /\ calls.opened = 0
    /\ DiskUntouched
    /\ \E i \in Objs :
          /\ objs[i].m_stream = FileStream /\ ~objs[i].alive
          /\ KindAt(i, "pre") # {} /\ KindAt(i, "tok") # {} /\ KindAt(i, "endl") # {}

(* -------------------------------- C7 ---------------------------------- *)

\* whether the string sub occurs in the string str
Contains(str, sub) ==
    \E k \in 1..(Len(str) - Len(sub) + 1) : SubSeq(str, k, k + Len(sub) - 1) = sub

EndsWith(str, sub) ==
    Len(str) >= Len(sub) /\ SubSeq(str, Len(str) - Len(sub) + 1, Len(str)) = sub

\* threshold Info; one Debug call on the default sink, then one Warning call on
\* it whose only token is "disk full", which has been destroyed
DiskFullScenario ==
    /\ logLevel = Info
    /\ Len(objs) = 2
    /\ OpenedAtFirstCall
    /\ objs[1].Level = Debug /\ objs[1].dest = FileStream /\ objs[1].copyOf = 0
    /\ objs[2].Level = Warning /\ objs[2].dest = FileStream /\ objs[2].copyOf = 0
    /\ ~objs[2].alive
    /\ KindAt(2, "raw") = {}
    /\ objs[2].shifts = 1
    /\ \A n \in KindAt(2, "tok") : objs[2].out[n].data = <<"disk full">>

\* C7: in that scenario the log file holds exactly one line, which contains
\* [Warning] and ends with disk full.
C7_DiskFullEndToEnd ==
    DiskFullScenario =>
        LET content == disk[logFile.path]
            text == Join(content)
        IN /\ Count(content, EndL) = 1
           /\ content[Len(content)] = EndL
           /\ Contains(text, "[Warning]")
           /\ EndsWith(text, "disk full" \o EndL)

\* the scenario has run to its end, the Debug statement destroyed first
C7_Witness ==
    /\ DiskFullScenario
    /\ Done
    /\ objs[2].encl = {}
    /\ logFile.path = "Info.log"
    /\ Len(disk["Info.log"]) > 2

(* -------------------------------- C8 ---------------------------------- *)

\* the fixed order Debug < Info < Warning < Error, as the pairs (low, high)
\* with low <= high
SeverityOrder == <<"Debug", "Info", "Warning", "Error">>
RankOf(label) == CHOOSE k \in 1..4 : SeverityOrder[k] = label
AtLeast(level, threshold) ==
    RankOf(logLevelToString(level)) >= RankOf(logLevelToString(threshold))

\* a statement is bound to the stream it was given exactly when its level is at
\* least the threshold, and to the null stream otherwise
ActiveIffAtLeastThreshold ==
    \A i \in Objs :
        /\ (objs[i].m_stream = objs[i].dest) <=> AtLeast(objs[i].Level, logLevel)
        /\ objs[i].m_stream \in {objs[i].dest, NullStream}
        /\ (KindAt(i, "pre") # {} \/ KindAt(i, "tok") # {} \/ KindAt(i, "endl") # {})
              => AtLeast(objs[i].Level, logLevel)

\* no operation changes the level, the threshold or the bound stream of a
\* statement that exists
BindingFrozen ==
    /\ NDEBUG' = NDEBUG
    /\ \A i \in Objs :
          /\ objs'[i].Level = objs[i].Level
          /\ objs'[i].dest = objs[i].dest
          /\ objs'[i].m_stream = objs[i].m_stream

\* C8: a statement is Active exactly when its level >= the threshold in the
\* order Debug < Info < Warning < Error; that is decided at construction and
\* append, get_stream and destruction change neither it nor the bound stream.
C8_ActiveDecidedOnce == []ActiveIffAtLeastThreshold /\ [][BindingFrozen]_vars

\* a statement at the threshold's own level and one below it have both been
\* appended to, written through get_stream() and destroyed
C8_Witness ==
    \E i, j \in Objs :
        /\ objs[i].Level = logLevel /\ objs[i].m_stream = objs[i].dest
        /\ objs[j].Level < logLevel /\ objs[j].m_stream = NullStream
        /\ ~objs[i].alive /\ ~objs[j].alive
        /\ objs[i].shifts >= 1 /\ KindAt(j, "raw") # {}

(* -------------------------------- C9 ---------------------------------- *)

\* before the first getLogFile call no file is open or touched, and the name
\* starts as <label(threshold)>.log
LazyAndDefaultNamed ==
    /\ (calls.n = 0) => (~logFile.is_open /\ DiskUntouched)
    /\ (ops = 0) => logFileName = (IF NDEBUG THEN "Info.log" ELSE "Debug.log")

\* the first call opens the file logFileName names at that moment
FirstCallOpensCurrentName ==
    (calls.n = 0 /\ calls'.n = 1) =>
        IF CanOpen(logFileName)
        THEN logFile' = [is_open |-> TRUE, path |-> logFileName]
             /\ disk'[logFileName] \notin {Absent, Stale}
        ELSE ~logFile'.is_open

\* once open, the handle is never closed or rebound, and no other file is
\* touched, whatever logFileName becomes
OpenHandleKept ==
    logFile.is_open =>
        /\ logFile' = logFile
        /\ \A n \in DOMAIN disk : n # logFile.path => disk'[n] = disk[n]

\* C9: lazy open under the name logFileName holds at the first call; after a
\* successful open the handle stays as it is and later changes of logFileName
\* have no effect.
C9_LazyOpenNameFixedAtOpen ==
    []LazyAndDefaultNamed /\ [][FirstCallOpensCurrentName /\ OpenHandleKept]_vars

\* the name was overridden before first use, the file opened under it, the
\* name changed back and a statement written: the line is in the first file
C9_Witness ==
    /\ logFile.is_open /\ logFile.path = CustomName
    /\ logFileName = DefaultName(NDEBUG)
    /\ calls.n >= 2 /\ calls.attempts = 1
    /\ Count(disk[CustomName], EndL) = 1
    /\ disk[DefaultName(NDEBUG)] = Stale

(* -------------------------------- C10 --------------------------------- *)

\* the writes of kind k issued on `stream` by all objects
NumKind(k, stream) ==
    Cardinality({<<i, n>> \in Objs \X (1..MaxOps) :
                    /\ n \in KindAt(i, k)
                    /\ objs[i].out[n].stream = stream})

\* C10: a statement cannot be copied, so the terminators written to a
\* destination never exceed the preambles written to it.
C10_TerminatorsNeverExceedPreambles ==
    \A stream \in {FileStream, UserStream} :
        NumKind("endl", stream) <= NumKind("pre", stream)

(* ------------------------------- C11 ---------------------------------- *)

Trimmed == pure.fn = "print_file_name" /\ pure.done

\* the characters of `path` after its last '/', all of them when it has none
AfterLastSlash(path) ==
    IF \E i \in 1..Len(path) : path[i] = "/"
    THEN CHOOSE suf \in {SubSeq(path, i + 1, Len(path)) : i \in 1..Len(path)} :
            /\ path[Len(path) - Len(suf)] = "/"
            /\ \A j \in 1..Len(suf) : suf[j] # "/"
    ELSE path

\* C11: print_file_name streams exactly one piece, the part of the path after
\* its last '/', the whole path when it has no '/': "/a/b/c.cpp" and "c.cpp"
\* both give "c.cpp" and "" gives ""; the piece never contains '/' and is
\* always a suffix of the path.
C11_TrimIsLastComponent ==
    Trimmed =>
        /\ Len(pure.ret) = 1
        /\ pure.ret[1] = Join(AfterLastSlash(pure.arg))
        /\ ~Contains(pure.ret[1], "/")
        /\ EndsWith(Join(pure.arg), pure.ret[1])
        /\ (pure.arg = AbsolutePath => pure.ret[1] = "c.cpp")
        /\ (pure.arg = BarePath => pure.ret[1] = "c.cpp")
        /\ (pure.arg = <<>> => pure.ret[1] = "")

\* a path with two separators has been trimmed to a proper, non-empty suffix
C11_Witness ==
    /\ Trimmed
    /\ pure.arg = AbsolutePath
    /\ pure.ret = <<"c.cpp">>

(* ------------------------------- C12 ---------------------------------- *)

\* C12: logLevelToString is defined on every value of the 8-bit underlying
\* type: the four enumerators give their own names and each of the other 252
\* values gives "Unknown".
C12_LabelTotal ==
    (pure.fn = "logLevelToString" /\ pure.done) =>
        /\ pure.arg = 0 => pure.ret = "Debug"
        /\ pure.arg = 1 => pure.ret = "Info"
        /\ pure.arg = 2 => pure.ret = "Warning"
        /\ pure.arg = 3 => pure.ret = "Error"
        /\ pure.arg \in 4..255 => pure.ret = "Unknown"

\* the largest value of the underlying type has been labelled
C12_Witness ==
    /\ pure.fn = "logLevelToString" /\ pure.done
    /\ pure.arg = 255
    /\ pure.ret = "Unknown"

(* ------------------------------- C15 ---------------------------------- *)

Timed == pure.fn = "print_time" /\ pure.done

\* C15: the hour field is the whole hours since the epoch reduced mod 24 with
\* the offset then added and nothing more, and its text is that number; the
\* minute and second fields lie in 0..59 and are the same in every build,
\* whatever its offset.
C15_HourIsModPlusOffset ==
    Timed =>
        LET hours == pure.arg.now \div 3600000
            tz == pure.arg.tz
        IN /\ pure.ret.h - tz \in 0..23
           /\ (hours - (pure.ret.h - tz)) % 24 = 0
           /\ pure.ret.text[1] = Pad(ToString(pure.ret.h), 2)
           /\ pure.ret.min \in 0..59
           /\ pure.ret.s \in 0..59
           /\ \A other \in Offsets :
                 /\ print_timeAt(pure.arg.now, other)[3] = pure.ret.text[3]
                 /\ print_timeAt(pure.arg.now, other)[5] = pure.ret.text[5]

\* an hour of 24 or more under a positive offset
C15_Witness ==
    /\ Timed
    /\ pure.arg.tz > 0
    /\ pure.ret.h >= 24
    /\ pure.ret.text[1] = "28"

\* a negative hour under a negative offset
C15_WitnessNegative ==
    /\ Timed
    /\ pure.arg.tz < 0
    /\ pure.ret.h < 0

(* ------------------------------- C16 ---------------------------------- *)

\* C16: the sub-second field is the millisecond count reduced mod 100: it lies
\* in 0..99, differs from the count by a multiple of 100, and is printed in
\* three characters of which the first is '0'.
C16_SubSecondMod100 ==
    Timed =>
        /\ pure.ret.ms \in 0..99
        /\ (pure.arg.now - pure.ret.ms) % 100 = 0
        /\ pure.ret.text[7] = Pad(ToString(pure.ret.ms), 3)
        /\ Len(pure.ret.text[7]) = 3
        /\ SubSeq(pure.ret.text[7], 1, 1) = "0"

\* 789 milliseconds into the second, printed as 089
C16_Witness ==
    /\ Timed
    /\ pure.arg.now % 1000 = 789
    /\ pure.ret.ms = 89
    /\ pure.ret.text[7] = "089"

(* ------------------------------- C13 ---------------------------------- *)

\* the statement whose constructor ran for object i: i itself unless i is a copy
RECURSIVE Root(_)
Root(i) == IF objs[i].copyOf = 0 THEN i ELSE Root(objs[i].copyOf)

\* the preamble of a statement of severity Level made at /a/m.c:42 in main at
\* 12:34:56.789, piece by piece
ExpectedPreamble(Level) ==
    <<"[", "12", ":", "34", ":", "56", ".", "089", "][",
      <<"Debug", "Info", "Warning", "Error">>[Level + 1], "][",
      "m.c", ":", "42", "]", "[", "main", "] ">>

Bound == {i \in 1..Len(objs) : objs[i].m_stream # NullStream}

\* the first write of every active statement is its whole preamble, on the
\* stream it is bound to, and it writes no second one
PreambleFirst ==
    \A i \in Bound :
        LET r == Root(i)
        IN /\ Len(objs[r].out) >= 1
           /\ objs[r].out[1] = [kind |-> "pre", stream |-> objs[i].m_stream,
                                data |-> ExpectedPreamble(objs[r].Level)]
           /\ \A k \in 2..Len(objs[r].out) : objs[r].out[k].kind # "pre"
           /\ i # r => \A k \in 1..Len(objs[i].out) : objs[i].out[k].kind # "pre"

\* the step that constructs an active statement puts the preamble, whole, at
\* the end of what its stream holds
ConstructWritesPreamble ==
    (Len(objs') = Len(objs) + 1 /\ objs'[Len(objs')].copyOf = 0
        /\ objs'[Len(objs')].m_stream # NullStream) =>
        LET o == objs'[Len(objs')]
        IN /\ Len(o.out) = 1 /\ o.shifts = 0
           /\ o.dest = UserStream => user' = user \o ExpectedPreamble(o.Level)
           /\ (o.dest = FileStream /\ logFile'.is_open) =>
                 disk'[logFile'.path] =
                     (IF logFile.is_open THEN disk[logFile.path] ELSE <<>>)
                     \o ExpectedPreamble(o.Level)

\* every later write of a statement goes after the writes it has made, and a
\* token appended to an active statement is its newest write
AppendOrder ==
    \A i \in 1..Len(objs) :
        /\ Len(objs'[i].out) >= Len(objs[i].out)
        /\ SubSeq(objs'[i].out, 1, Len(objs[i].out)) = objs[i].out
        /\ (i \in Bound /\ objs'[i].shifts = objs[i].shifts + 1) =>
              /\ Len(objs'[i].out) = Len(objs[i].out) + 1
              /\ objs'[i].out[Len(objs'[i].out)].kind = "tok"
              /\ objs'[i].out[Len(objs'[i].out)].data \in {<<t>> : t \in Tokens}

\* C13: an active statement streams its whole preamble in its constructor,
\* in the order '[', time, '][', label, '][', file name without directories,
\* ':', line, ']', '[', function, '] ', before any token can be appended to
\* it, and the tokens follow in the order they are appended.
C13_PreambleThenTokens ==
    /\ []PreambleFirst
    /\ [][ConstructWritesPreamble /\ AppendOrder]_vars

\* an active statement on the caller's stream with two tokens appended: the
\* stream holds the preamble and then the tokens
C13_Witness ==
    \E i \in Bound :
        /\ objs[i].copyOf = 0 /\ objs[i].dest = UserStream
        /\ objs[i].shifts = 2
        /\ Len(objs[i].out) = 3
        /\ objs[i].out[2].kind = "tok" /\ objs[i].out[3].kind = "tok"
        /\ user = ExpectedPreamble(objs[i].Level) \o <<"disk full", "disk full">>

(* ------------------------------- C17 ---------------------------------- *)

\* the file system as it is before the program touches it
InitialDisk ==
    [n \in FileNames(NDEBUG) |-> IF n = DefaultName(NDEBUG) THEN Stale ELSE Absent]

\* every statement so far was made on the caller's stream, and the client has
\* not called getLogFile itself
OnlyUserStatements ==
    /\ Len(objs) >= 1
    /\ \A i \in Objs : objs[i].dest = UserStream
    /\ calls.n = 0

\* then the shared file is not open and no file was created or changed, no
\* write was issued on the file, and the caller's stream holds every piece
SharedSinkUntouched ==
    OnlyUserStatements =>
        /\ ~logFile.is_open /\ logFile.path = NoPath
        /\ calls.attempts = 0
        /\ disk = InitialDisk
        /\ Issued(FileStream) = 0
        /\ Len(user) = Issued(UserStream)
        /\ \A i \in Objs : objs[i].m_stream \in {UserStream, NullStream}

\* the statements a step constructs or writes through
Touched == {i \in 1..Len(objs') : i > Len(objs) \/ objs'[i] # objs[i]}

\* a step that concerns only statements on the caller's stream leaves the
\* shared file, the file system and the count of getLogFile calls as they were
UserStepFrame ==
    (Touched # {} /\ \A i \in Touched : objs'[i].dest = UserStream) =>
        UNCHANGED <<logFile, disk, calls, logFileName>>

\* C17: statements on a caller-supplied stream, active or not, never open,
\* create or write the shared log file; what the active ones stream goes to
\* the supplied stream and nowhere else.
C17_UserStreamLeavesSinkAlone ==
    /\ []SharedSinkUntouched
    /\ [][UserStepFrame]_vars

\* a run of statements on the caller's stream only, one of them active, written
\* to and destroyed
C17_Witness ==
    /\ OnlyUserStatements
    /\ \E i \in Bound : objs[i].shifts >= 1 /\ ~objs[i].alive
    /\ Len(user) >= 20

\* an active statement on the caller's stream, written to and destroyed while
\* the shared file was open and held a line of its own
C17_WitnessBesideFile ==
    /\ logFile.is_open
    /\ Len(disk[logFile.path]) >= 19
    /\ \E i \in Bound :
          objs[i].dest = UserStream /\ objs[i].shifts >= 1 /\ ~objs[i].alive
    /\ Len(user) >= 20

(* ------------------------------- C18 ---------------------------------- *)

\* C18: once an active statement has been constructed on a stream, the fill
\* character of that stream is '0', and it is still '0' at every later point:
\* while tokens are appended, for writes through get_stream(), and after the
\* statement is destroyed.
C18_FillStaysZero ==
    \A i \in Bound : fill[objs[i].m_stream] = "0"

\* the same for the streams no later call of getLogFile replaces: the caller's
\* stream, and the shared file when the first call opened it
C18_FillStaysZeroOnKeptStreams ==
    \A i \in Bound :
        (objs[i].m_stream = UserStream \/ OpenedAtFirstCall) =>
            fill[objs[i].m_stream] = "0"

\* a step that constructs an inactive statement on the caller's stream, and
\* every step that appends, copies or destroys, leaves both fill characters alone
FillFrame ==
    (calls' = calls /\ \A i \in Touched : i > Len(objs) =>
                           objs'[i].m_stream = NullStream \/ objs'[i].copyOf # 0)
        => fill' = fill

C18_FillFrame == [][FillFrame]_vars

\* the file could not be opened, an active statement set its fill to '0', and
\* a later call of getLogFile has put a fresh stream in its place
C18_FillReset ==
    /\ ~logFile.is_open
    /\ \E i \in Bound : objs[i].m_stream = FileStream
    /\ fill[FileStream] = " "

(* ------------------------------- C14 ---------------------------------- *)

\* the threads that have found the file not open and gone past line 42's open
WentToOpen == {t \in Threads : thr.pc[t] \in {"assign", "ctor", "shift", "dtor", "done"}}

\* a thread that found the file not open opens it, whatever the other thread
\* has done in between: the open creates or truncates the file
OpenUnprotected ==
    \A t \in Threads :
        (thr.pc[t] = "open" /\ thr'.pc[t] # "open") =>
            /\ thr'.pc[t] = "assign"
            /\ thr'.tmp[t].is_open
            /\ calls'.attempts = calls.attempts + 1
            /\ disk'[logFileName] = <<>>

\* the first test always finds the file not open, and a thread gets past
\* line 41 without opening only when it found the file open
TestUnprotected ==
    \A t \in Threads :
        (thr.pc[t] = "test" /\ thr'.pc[t] # "test") =>
            thr'.pc[t] = (IF logFile.is_open THEN "ctor" ELSE "open")

\* C14: nothing orders the two threads' first calls of getLogFile: each thread
\* that reads logFile.is_open() as false goes on to open the file, truncating
\* it, even when the other thread has opened it and written to it meanwhile.
C14_FirstOpenUnprotected ==
    [][OpenUnprotected /\ TestUnprotected]_vars

\* both threads found the file not open, both opened it, and the line thread
\* 1 had written in full is no longer in the file when both are done
C14_Witness ==
    /\ \A t \in Threads : thr.pc[t] = "done"
    /\ calls.attempts = 2 /\ calls.opened = 2
    /\ thr.kept[1] /\ thr.kept[2]
    /\ ThreadLine(1) # <<>>
    /\ ~Holds(disk[logFile.path], ThreadLine(1))
    /\ Holds(disk[logFile.path], ThreadLine(2))

====
